---- MODULE Spec2Model ----
(***************************************************************************)
(* A model of BeeVeeH/bvh_helper.py: the BVH joint tree (BVHNode), its     *)
(* channels (BVHChannel), frame loading, forward kinematics, node search   *)
(* and the weighted pose distance.                                         *)
(*                                                                         *)
(* Objects live in two stores, as in the Python heap:                      *)
(*   heap  - a sequence of BVHNode objects, a node's reference being its   *)
(*           index; children are sequences of references;                  *)
(*   lists - a sequence of Python list objects holding frame values.       *)
(* copy.deepcopy and copy.copy therefore allocate new objects, and an      *)
(* aliasing bug is expressible.                                            *)
(*                                                                         *)
(* Arithmetic is exact integer arithmetic: frame values are whole quarter  *)
(* turns (multiples of 90), for which cos and sin are the integers -1, 0,  *)
(* 1, and np.linalg.norm is the integer square root of the sum of squares. *)
(* Floating point rounding, NaN and infinities are outside the model.      *)
(*                                                                         *)
(* Exceptions are outcomes: IndexError from list.pop(0) on an empty list,  *)
(* AssertionError from the assert of distance, TypeError from [] - [].     *)
(***************************************************************************)
EXTENDS Integers, Sequences, FiniteSets, TLC

-----------------------------------------------------------------------------
(* Bounds *)

\* frames hold 0..MaxFrameLen values
MaxFrameLen == 3

-----------------------------------------------------------------------------
(* Evaluation *)

\* LET x == v IN F(x), with v evaluated once
Bind(v, F(_)) == F(v)

-----------------------------------------------------------------------------
(* 4x4 homogeneous matrices, np.dot and np.linalg.norm *)

\* np.identity(4), also the default parent_tran_matrix
Identity4 ==
  << <<1, 0, 0, 0>>, <<0, 1, 0, 0>>, <<0, 0, 1, 0>>, <<0, 0, 0, 1>> >>

\* one entry of a matrix product: row i of A times column j of B
DotCell(A, B, i, j) ==
  A[i][1] * B[1][j] + A[i][2] * B[2][j] + A[i][3] * B[3][j] + A[i][4] * B[4][j]

DotRow(A, B, i) ==
  <<DotCell(A, B, i, 1), DotCell(A, B, i, 2), DotCell(A, B, i, 3), DotCell(A, B, i, 4)>>

\* np.dot on two 4x4 matrices
Dot(A, B) ==
  <<DotRow(A, B, 1), DotRow(A, B, 2), DotRow(A, B, 3), DotRow(A, B, 4)>>

\* math.cos(math.radians(x)) for x a multiple of 90
CosDeg(x) ==
  LET q == (x \div 90) % 4
  IN  CASE q = 0 -> 1 [] q = 1 -> 0 [] q = 2 -> -1 [] OTHER -> 0

\* math.sin(math.radians(x)) for x a multiple of 90
SinDeg(x) ==
  LET q == (x \div 90) % 4
  IN  CASE q = 0 -> 0 [] q = 1 -> 1 [] q = 2 -> 0 [] OTHER -> -1

\* BVHChannel.ChannelTransformMatrixMap[name](x)
ChannelTransformMatrixMap(name, x) ==
  CASE name = "Xposition" ->
         << <<1, 0, 0, x>>, <<0, 1, 0, 0>>, <<0, 0, 1, 0>>, <<0, 0, 0, 1>> >>
    [] name = "Yposition" ->
         << <<1, 0, 0, 0>>, <<0, 1, 0, x>>, <<0, 0, 1, 0>>, <<0, 0, 0, 1>> >>
    [] name = "Zposition" ->
         << <<1, 0, 0, 0>>, <<0, 1, 0, 0>>, <<0, 0, 1, x>>, <<0, 0, 0, 1>> >>
    [] name = "Xrotation" ->
         << <<1, 0, 0, 0>>,
            <<0, CosDeg(x), -SinDeg(x), 0>>,
            <<0, SinDeg(x), CosDeg(x), 0>>,
            <<0, 0, 0, 1>> >>
    [] name = "Yrotation" ->
         << <<CosDeg(x), 0, SinDeg(x), 0>>,
            <<0, 1, 0, 0>>,
            <<-SinDeg(x), 0, CosDeg(x), 0>>,
            <<0, 0, 0, 1>> >>
    [] name = "Zrotation" ->
         << <<CosDeg(x), -SinDeg(x), 0, 0>>,
            <<SinDeg(x), CosDeg(x), 0, 0>>,
            <<0, 0, 1, 0>>,
            <<0, 0, 0, 1>> >>

\* BVHChannel.__init__: value starts at 0.0
BVHChannel(name) == [name |-> name, value |-> 0]

\* BVHChannel.set_value
set_value(channel, value) == [channel EXCEPT !.value = value]

\* BVHChannel.matrix
matrix(channel) == ChannelTransformMatrixMap(channel.name, channel.value)

\* floor of the square root, by bisection on lo..hi
RECURSIVE ISqrtIn(_, _, _)
ISqrtIn(n, lo, hi) ==
  IF lo >= hi THEN lo
  ELSE LET mid == (lo + hi + 1) \div 2
       IN  IF mid * mid <= n THEN ISqrtIn(n, mid, hi) ELSE ISqrtIn(n, lo, mid - 1)

\* (46340 is the largest root whose square fits a 32-bit integer)
ISqrt(n) == ISqrtIn(n, 0, IF n < 46340 THEN n ELSE 46340)

\* the Python value None
None == 0

\* node.coordinates and node.localTrans before any apply_transformation: []
EmptyList == <<>>

\* (mutation of norm) a forgotten square: the components are summed as they are
NormSigned(d) ==
  d[1] + d[2] + d[3]

\* np.linalg.norm on a difference of two 3-vectors
norm(d) ==
  ISqrt(d[1] * d[1] + d[2] * d[2] + d[3] * d[3])

\* (mutation of NormDiff) the coordinates are added instead of subtracted
NormSum(ca, cb) ==
  IF ca = EmptyList /\ cb = EmptyList
    THEN [status |-> "TypeError", value |-> 0]
  ELSE IF ca = EmptyList \/ cb = EmptyList
    THEN [status |-> "ok", value |-> 0]
  ELSE [status |-> "ok",
        value |-> norm(<<ca[1] + cb[1], ca[2] + cb[2], ca[3] + cb[3]>>)]

\* np.linalg.norm(node_a.coordinates - node_b.coordinates):
\*   [] - []            : TypeError (list minus list)
\*   ndarray(3,1) - []  : broadcasts to an empty (3,0) array, whose norm is 0
NormDiff(ca, cb) ==
  IF ca = EmptyList /\ cb = EmptyList
    THEN [status |-> "TypeError", value |-> 0]
  ELSE IF ca = EmptyList \/ cb = EmptyList
    THEN [status |-> "ok", value |-> 0]
  ELSE [status |-> "ok",
        value |-> norm(<<ca[1] - cb[1], ca[2] - cb[2], ca[3] - cb[3]>>)]

-----------------------------------------------------------------------------
(* The object stores *)

\* BVHNode.__init__: children are built before their parent
BVHNode(name, offsets, channel_names, children, weight) ==
  [name        |-> name,
   children    |-> children,
   channels    |-> [k \in 1..Len(channel_names) |-> BVHChannel(channel_names[k])],
   offsets     |-> offsets,
   weight      |-> weight,
   coordinates |-> EmptyList,
   localTrans  |-> EmptyList]

\* A skeleton description: what the caller (or the loader) builds nodes from
Joint(name, offsets, channel_names, children, weight) ==
  [name |-> name, offsets |-> offsets, channel_names |-> channel_names,
   children |-> children, weight |-> weight]

\* nested construction BVHNode(..., children=[BVHNode(...), ...]):
\* returns the heap with the new objects and the reference of the root
RECURSIVE BuildNode(_, _), BuildChildren(_, _, _)
BuildChildren(h, joints, acc) ==
  IF joints = <<>> THEN [heap |-> h, ids |-> acc]
  ELSE Bind(BuildNode(h, Head(joints)), LAMBDA r :
         BuildChildren(r.heap, Tail(joints), Append(acc, r.id)))

BuildNode(h, j) ==
  Bind(BuildChildren(h, j.children, <<>>), LAMBDA c :
    [heap |-> Append(c.heap,
                     BVHNode(j.name, j.offsets, j.channel_names, c.ids, j.weight)),
     id   |-> Len(c.heap) + 1])

\* (mutation of deepcopy) the "copy" is the same object
deepcopy_alias(h, id) == [heap |-> h, id |-> id]

\* copy.deepcopy(node): every node of the subtree is a new object, holding the
\* same channel values, localTrans and coordinates
RECURSIVE deepcopy(_, _), deepcopy_children(_, _, _)
deepcopy_children(h, kids, acc) ==
  IF kids = <<>> THEN [heap |-> h, ids |-> acc]
  ELSE Bind(deepcopy(h, Head(kids)), LAMBDA r :
         deepcopy_children(r.heap, Tail(kids), Append(acc, r.id)))

deepcopy(h, id) ==
  Bind(deepcopy_children(h, h[id].children, <<>>), LAMBDA c :
    [heap |-> Append(c.heap, [h[id] EXCEPT !.children = c.ids]),
     id   |-> Len(c.heap) + 1])

\* (mutation of copy_copy) no copy is taken: the callee works on the caller's list
copy_alias(ls, a) == [lists |-> ls, ref |-> a]

\* copy.copy(frame_data_array): a new list object with the same elements
copy_copy(ls, a) == [lists |-> Append(ls, ls[a]), ref |-> Len(ls) + 1]

-----------------------------------------------------------------------------
(* BVHNode.search_node *)

\* (mutation of search_node) the children are tried from the last to the first
RECURSIVE search_node_rev(_, _, _), search_children_rev(_, _, _)
search_children_rev(h, kids, name) ==
  IF kids = <<>> THEN None
  ELSE Bind(search_node_rev(h, kids[Len(kids)], name), LAMBDA result :
         IF result # None THEN result
         ELSE search_children_rev(h, SubSeq(kids, 1, Len(kids) - 1), name))

search_node_rev(h, id, name) ==
  IF h[id].name = name THEN id
  ELSE search_children_rev(h, h[id].children, name)

\* search_node: self first, then each child in turn; the first hit is returned
RECURSIVE search_node(_, _, _), search_children(_, _, _)
search_children(h, kids, name) ==
  IF kids = <<>> THEN None
  ELSE Bind(search_node(h, Head(kids), name), LAMBDA result :
         IF result # None THEN result
         ELSE search_children(h, Tail(kids), name))

search_node(h, id, name) ==
  IF h[id].name = name THEN id
  ELSE search_children(h, h[id].children, name)

-----------------------------------------------------------------------------
(* BVHNode.load_frame *)

\* (mutation of pop0) list.pop(): the last element is taken
pop_last(ls, a) ==
  IF ls[a] = <<>>
    THEN [lists |-> ls, value |-> 0, err |-> "IndexError"]
  ELSE [lists |-> [ls EXCEPT ![a] = SubSeq(ls[a], 1, Len(ls[a]) - 1)],
        value |-> ls[a][Len(ls[a])], err |-> "ok"]

\* (mutation of pop0) an empty list yields the default 0.0 and no error
pop_default(ls, a) ==
  IF ls[a] = <<>>
    THEN [lists |-> ls, value |-> 0, err |-> "ok"]
  ELSE [lists |-> [ls EXCEPT ![a] = Tail(ls[a])], value |-> Head(ls[a]), err |-> "ok"]

\* frame_data_array.pop(0): IndexError on an empty list
pop0(ls, a) ==
  IF ls[a] = <<>>
    THEN [lists |-> ls, value |-> 0, err |-> "IndexError"]
  ELSE [lists |-> [ls EXCEPT ![a] = Tail(ls[a])], value |-> Head(ls[a]), err |-> "ok"]

\* for channel in self.channels: channel.set_value(frame_data_array.pop(0))
\* st = [heap, lists, err]; the loop stops at the first exception
RECURSIVE load_channels(_, _, _, _)
load_channels(st, id, a, k) ==
  IF st.err # "ok" \/ k > Len(st.heap[id].channels) THEN st
  ELSE Bind(pop0(st.lists, a), LAMBDA p :
         IF p.err # "ok" THEN [st EXCEPT !.err = p.err]
         ELSE load_channels(
                [heap  |-> [st.heap EXCEPT ![id].channels[k] =
                              set_value(st.heap[id].channels[k], p.value)],
                 lists |-> p.lists,
                 err   |-> "ok"],
                id, a, k + 1))

\* __load_frame: own channels, then the children in declared order
RECURSIVE load_frame_rec(_, _, _), load_frame_children(_, _, _)
load_frame_children(st, kids, a) ==
  IF st.err # "ok" \/ kids = <<>> THEN st
  ELSE load_frame_children(load_frame_rec(st, Head(kids), a), Tail(kids), a)

load_frame_rec(st, id, a) ==
  load_frame_children(load_channels(st, id, a, 1), st.heap[id].children, a)

\* load_frame: __load_frame on a copy.copy of the argument
load_frame(h, ls, id, a) ==
  Bind(copy_copy(ls, a), LAMBDA c :
    load_frame_rec([heap |-> h, lists |-> c.lists, err |-> "ok"], id, c.ref))

-----------------------------------------------------------------------------
(* BVHNode.apply_transformation *)

\* (mutation of local_start) the previous pass's localTrans is kept
local_keep(node) ==
  IF node.localTrans = EmptyList THEN Identity4 ELSE node.localTrans

\* self.localTrans = np.identity(4)
local_start(node) == Identity4

\* for channel in self.channels: localTrans = np.dot(localTrans, channel.matrix())
RECURSIVE local_product(_, _, _)
local_product(acc, channels, k) ==
  IF k > Len(channels) THEN acc
  ELSE local_product(Dot(acc, matrix(channels[k])), channels, k + 1)

\* one row of tran_matrix times the column (offsets, 1)
world_row(tran_matrix, offsets, i) ==
  tran_matrix[i][1] * offsets[1] + tran_matrix[i][2] * offsets[2]
    + tran_matrix[i][3] * offsets[3] + tran_matrix[i][4]

\* np.dot(tran_matrix, np.append(cor, [[1]], axis=0))[:3]
world_coordinates(tran_matrix, offsets) ==
  <<world_row(tran_matrix, offsets, 1), world_row(tran_matrix, offsets, 2),
    world_row(tran_matrix, offsets, 3)>>

\* one node of apply_transformation: the node as updated and the matrix its
\* children receive
apply_node(node, parent_tran_matrix) ==
  Bind(local_product(local_start(node), node.channels, 1), LAMBDA localTrans :
  Bind(Dot(parent_tran_matrix, localTrans), LAMBDA tran_matrix :
    [node |-> [node EXCEPT !.localTrans  = localTrans,
                           !.coordinates = world_coordinates(tran_matrix, node.offsets)],
     tran_matrix |-> tran_matrix]))

RECURSIVE apply_transformation(_, _, _), apply_children(_, _, _)
apply_children(h, kids, tran_matrix) ==
  IF kids = <<>> THEN h
  ELSE apply_children(apply_transformation(h, Head(kids), tran_matrix),
                      Tail(kids), tran_matrix)

apply_transformation(h, id, parent_tran_matrix) ==
  Bind(apply_node(h[id], parent_tran_matrix), LAMBDA r :
    apply_children([h EXCEPT ![id] = r.node], h[id].children, r.tran_matrix))

-----------------------------------------------------------------------------
(* BVHNode.distance and BVHNode.frame_distance *)

\* (mutation of same_skeleton) the weights are not compared
same_name(node_a, node_b) == node_a.name = node_b.name

\* the condition of the assert
same_skeleton(node_a, node_b) ==
  node_a.name = node_b.name /\ node_a.weight = node_b.weight

\* zip(node_a.children, node_b.children): as many pairs as the shorter list has
Zip(ka, kb) ==
  LET n == IF Len(ka) < Len(kb) THEN Len(ka) ELSE Len(kb)
  IN  [i \in 1..n |-> <<ka[i], kb[i]>>]

\* distance: [status, value]; an exception ends the whole call
RECURSIVE distance(_, _, _), distance_children(_, _, _)
distance_children(h, acc, pairs) ==
  IF acc.status # "ok" \/ pairs = <<>> THEN acc
  ELSE Bind(distance(h, Head(pairs)[1], Head(pairs)[2]), LAMBDA d :
         IF d.status # "ok" THEN d
         ELSE distance_children(h, [status |-> "ok", value |-> acc.value + d.value],
                                Tail(pairs)))

distance(h, a, b) ==
  IF ~same_skeleton(h[a], h[b])
    THEN [status |-> "AssertionError", value |-> 0]
  ELSE Bind(NormDiff(h[a].coordinates, h[b].coordinates), LAMBDA n :
         IF n.status # "ok" THEN n
         ELSE distance_children(h, [status |-> "ok", value |-> n.value * h[a].weight],
                                Zip(h[a].children, h[b].children)))

\* frame_distance: [heap, lists, status, value]
frame_distance(h, ls, id, frame_a, frame_b) ==
  Bind(deepcopy(h, id), LAMBDA ca :
  Bind(load_frame(ca.heap, ls, ca.id, frame_a), LAMBDA la :
    IF la.err # "ok"
      THEN [heap |-> la.heap, lists |-> la.lists, status |-> la.err, value |-> 0]
    ELSE
      Bind(deepcopy(apply_transformation(la.heap, ca.id, Identity4), id), LAMBDA cb :
      Bind(load_frame(cb.heap, la.lists, cb.id, frame_b), LAMBDA lb :
        IF lb.err # "ok"
          THEN [heap |-> lb.heap, lists |-> lb.lists, status |-> lb.err, value |-> 0]
        ELSE
          Bind(apply_transformation(lb.heap, cb.id, Identity4), LAMBDA hb :
          Bind(distance(hb, ca.id, cb.id), LAMBDA d :
            [heap |-> hb, lists |-> lb.lists,
             status |-> d.status, value |-> d.value]))))))

-----------------------------------------------------------------------------
(* Views: what an observer of a tree or of its channels sees *)

\* the tree under a node with references replaced by the nodes they name
RECURSIVE TreeView(_, _)
TreeView(h, id) ==
  [name        |-> h[id].name,
   weight      |-> h[id].weight,
   offsets     |-> h[id].offsets,
   channels    |-> h[id].channels,
   coordinates |-> h[id].coordinates,
   localTrans  |-> h[id].localTrans,
   children    |-> [k \in 1..Len(h[id].children) |-> TreeView(h, h[id].children[k])]]

\* concatenation of a sequence of sequences
RECURSIVE Flatten(_)
Flatten(ss) == IF ss = <<>> THEN <<>> ELSE Head(ss) \o Flatten(Tail(ss))

\* the nodes of a tree in pre-order: a node, then the subtree of each child
\* in declared order
RECURSIVE Preorder(_, _)
Preorder(h, id) ==
  <<id>> \o Flatten([k \in 1..Len(h[id].children) |-> Preorder(h, h[id].children[k])])

\* the channel values of a tree, node by node in pre-order, a node's channels
\* in declared order
PreorderValues(h, id) ==
  LET ns == Preorder(h, id)
  IN  Flatten([n \in 1..Len(ns) |->
                 [k \in 1..Len(h[ns[n]].channels) |-> h[ns[n]].channels[k].value]])

\* the total channel count of a tree
TotalChannels(h, id) == Len(PreorderValues(h, id))

-----------------------------------------------------------------------------
(* Inputs *)

\* frame values: whole quarter turns
Values == {0, 90}

RECURSIVE SeqsOfLen(_)
SeqsOfLen(n) ==
  IF n = 0 THEN {<<>>}
  ELSE {Append(s, v) : s \in SeqsOfLen(n - 1), v \in Values}

\* the frames a caller may hold: shorter than, as long as and longer than the
\* channel count of the skeletons below
Frames == UNION {SeqsOfLen(n) : n \in 0..MaxFrameLen}

\* the frames of full length
FullFrames == SeqsOfLen(MaxFrameLen)

\* two joints in a chain, three channels
Chain(name, weight, child_name, child_weight) ==
  Joint(name, <<0, 0, 0>>, <<"Xposition", "Yrotation">>,
        << Joint(child_name, <<1, 0, 0>>, <<"Zrotation">>, <<>>, child_weight) >>,
        weight)

Skel1 == Chain("Hips", 1, "Spine", 1)

\* a root with two children, the first with a child of its own; the name
\* Foot occurs twice; two channels
Skel2 ==
  Joint("Hips", <<0, 0, 0>>, <<"Zrotation">>,
        << Joint("Leg", <<1, 0, 0>>, <<>>,
                 << Joint("Foot", <<0, 2, 0>>, <<>>, <<>>, 2) >>, 1),
           Joint("Foot", <<0, 0, 1>>, <<"Yposition">>, <<>>, 1) >>, 1)

\* a single end site without channels
Skel3 == Joint("Site", <<1, 2, 2>>, <<>>, <<>>, 1)

Skeletons == {Skel1, Skel2, Skel3}

\* end sites share a name, one of them below a joint that comes first
Skel4 ==
  Joint("Hips", <<0, 0, 0>>, <<"Yrotation">>,
        << Joint("Spine", <<0, 1, 0>>, <<"Xrotation">>,
                 << Joint("Site", <<0, 1, 0>>, <<>>, <<>>, 1) >>, 1),
           Joint("Site", <<1, 0, 0>>, <<>>, <<>>, 1),
           Joint("Leg", <<0, 0, 1>>, <<>>, <<>>, 1) >>, 1)

SearchSkeletons == Skeletons \cup {Skel4}

\* the names searched for: every name in use and one that is not
SearchNames == {"Hips", "Spine", "Leg", "Foot", "Site", "Nobody"}

\* Skel1 with a second child
Wide ==
  Joint("Hips", <<0, 0, 0>>, <<"Xposition", "Yrotation">>,
        << Joint("Spine", <<1, 0, 0>>, <<"Zrotation">>, <<>>, 1),
           Joint("Tail", <<0, 0, 1>>, <<>>, <<>>, 1) >>, 1)

\* the trees compared with a Skel1 tree: the same skeleton, and skeletons
\* differing from it in a name, in a weight, or in the number of children
DistSkeletons ==
  {Skel1, Chain("Root", 1, "Spine", 1), Chain("Hips", 2, "Spine", 1),
   Chain("Hips", 1, "Chest", 1), Chain("Hips", 1, "Spine", 2), Wide}

Workers == {1, 2}

-----------------------------------------------------------------------------
(* State *)

VARIABLES
  heap,      \* the BVHNode objects
  lists,     \* the list objects: the caller's frame arrays first
  skel,      \* the description the tree was built from
  root,      \* reference of the tree's root node
  other,     \* reference of a second tree's root node, or None
  out,       \* the last call: its name, receiver, arguments and outcome
  lastLoad,  \* a: the array of the latest load_frame on root that succeeded,
             \* status: the outcome of the latest load_frame call on root
  pc,        \* per worker: where it is in copy / load_frame / apply_transformation
  own,       \* per worker: reference of its deep copy
  priv,      \* per worker: reference of the private list of its load_frame
  todo       \* per worker: the pending calls of the recursion it is in

vars == <<heap, lists, skel, root, other, out, lastLoad, pc, own, priv, todo>>

workerVars == <<pc, own, priv, todo>>

NoCall == [op |-> "none", node |-> None, a |-> 0, b |-> 0, status |-> "ok", value |-> 0]

NoLoad == [a |-> 0, status |-> "ok"]

\* no worker is running
InitIdle ==
  /\ pc = [w \in Workers |-> "idle"]
  /\ own = [w \in Workers |-> None]
  /\ priv = [w \in Workers |-> None]
  /\ todo = [w \in Workers |-> <<>>]

\* one tree, built from j, and the caller's arrays fs
InitTree(j, fs) ==
  \E t \in {BuildNode(<<>>, j)} :
    /\ heap = t.heap
    /\ root = t.id
    /\ skel = j
    /\ other = None
    /\ lists = fs
    /\ out = NoCall
    /\ lastLoad = NoLoad

Init ==
  /\ \E j \in Skeletons, f \in Frames, g \in FullFrames : InitTree(j, <<f, g>>)
  /\ InitIdle

\* objects no longer referenced once a call has returned are dropped
Live(store, old) == SubSeq(store, 1, Len(old))

\* t.load_frame(frames[a])
LoadFrameOn(t, a) ==
  \E r \in {load_frame(heap, lists, t, a)} :
    /\ heap' = r.heap
    /\ lists' = Live(r.lists, lists)
    /\ out' = [op |-> "load_frame", node |-> t, a |-> a, b |-> 0,
               status |-> r.err, value |-> 0]
    /\ lastLoad' = IF t # root THEN lastLoad
                   ELSE [a |-> IF r.err = "ok" THEN a ELSE lastLoad.a, status |-> r.err]
    /\ UNCHANGED <<skel, root, other>>

\* t.apply_transformation(), parent_tran_matrix being its default np.identity(4)
ApplyTransformationOn(t) ==
  /\ heap' = apply_transformation(heap, t, Identity4)
  /\ out' = [op |-> "apply_transformation", node |-> t, a |-> 0, b |-> 0,
             status |-> "ok", value |-> 0]
  /\ UNCHANGED <<lists, skel, root, other, lastLoad>>

LoadFrame ==
  /\ \E a \in 1..Len(lists) : LoadFrameOn(root, a)
  /\ UNCHANGED workerVars

ApplyTransformation ==
  /\ ApplyTransformationOn(root)
  /\ UNCHANGED workerVars

\* root.frame_distance(frames[a], frames[b])
FrameDistance ==
  /\ \E a \in 1..Len(lists), b \in 1..Len(lists) :
       \E r \in {frame_distance(heap, lists, root, a, b)} :
         /\ heap' = Live(r.heap, heap)
         /\ lists' = Live(r.lists, lists)
         /\ out' = [op |-> "frame_distance", node |-> root, a |-> a, b |-> b,
                    status |-> r.status, value |-> r.value]
  /\ UNCHANGED <<skel, root, other, lastLoad>>
  /\ UNCHANGED workerVars

Next ==
  \/ LoadFrame
  \/ ApplyTransformation
  \/ FrameDistance

Spec == Init /\ [][Next]_vars

-----------------------------------------------------------------------------
(* SpecSearch: search_node on a tree that is also loaded and transformed *)

InitSearch ==
  /\ \E j \in SearchSkeletons, f \in FullFrames : InitTree(j, <<f>>)
  /\ InitIdle

\* root.search_node(name)
SearchNode ==
  /\ \E name \in SearchNames :
       out' = [op |-> "search_node", node |-> root, a |-> name, b |-> 0,
               status |-> "ok", value |-> search_node(heap, root, name)]
  /\ UNCHANGED <<heap, lists, skel, root, other, lastLoad>>
  /\ UNCHANGED workerVars

NextSearch ==
  \/ SearchNode
  \/ LoadFrame
  \/ ApplyTransformation

SpecSearch == InitSearch /\ [][NextSearch]_vars

-----------------------------------------------------------------------------
(* SpecDistance: BVHNode.distance on two trees built separately *)

InitDistance ==
  /\ \E j \in DistSkeletons, f \in Frames :
       \E ta \in {BuildNode(<<>>, Skel1)} :
         \E tb \in {BuildNode(ta.heap, j)} :
           /\ heap = tb.heap
           /\ root = ta.id
           /\ other = tb.id
           /\ skel = Skel1
           /\ lists = <<f>>
           /\ out = NoCall
           /\ lastLoad = NoLoad
  /\ InitIdle

LoadEither ==
  /\ \E t \in {root, other}, a \in 1..Len(lists) : LoadFrameOn(t, a)
  /\ UNCHANGED workerVars

ApplyEither ==
  /\ \E t \in {root, other} : ApplyTransformationOn(t)
  /\ UNCHANGED workerVars

\* BVHNode.distance(root, other)
Distance ==
  /\ \E d \in {distance(heap, root, other)} :
       out' = [op |-> "distance", node |-> root, a |-> root, b |-> other,
               status |-> d.status, value |-> d.value]
  /\ UNCHANGED <<heap, lists, skel, root, other, lastLoad>>
  /\ UNCHANGED workerVars

NextDistance ==
  \/ LoadEither
  \/ ApplyEither
  \/ Distance

SpecDistance == InitDistance /\ [][NextDistance]_vars

-----------------------------------------------------------------------------
(* SpecWorkers: two workers, each deep-copying the tree and running           *)
(* load_frame and apply_transformation on its copy, one node per step         *)

InitWorkers ==
  /\ \E j \in Skeletons, f \in Frames, g \in FullFrames : InitTree(j, <<f, g>>)
  /\ pc = [w \in Workers |-> "copy"]
  /\ own = [w \in Workers |-> None]
  /\ priv = [w \in Workers |-> None]
  /\ todo = [w \in Workers |-> <<>>]

\* copy.deepcopy(root)
CopyTree(w) ==
  /\ pc[w] = "copy"
  /\ \E c \in {deepcopy(heap, root)} :
       /\ heap' = c.heap
       /\ own' = [own EXCEPT ![w] = c.id]
  /\ pc' = [pc EXCEPT ![w] = "load_frame"]
  /\ UNCHANGED <<lists, skel, root, other, out, lastLoad, priv, todo>>

\* load_frame entered: the copy.copy of the worker's array, and the call of
\* __load_frame on the root of the worker's tree
EnterLoadFrame(w) ==
  /\ pc[w] = "load_frame"
  /\ \E c \in {copy_copy(lists, w)} :
       /\ lists' = c.lists
       /\ priv' = [priv EXCEPT ![w] = c.ref]
  /\ todo' = [todo EXCEPT ![w] = <<own[w]>>]
  /\ pc' = [pc EXCEPT ![w] = "__load_frame"]
  /\ UNCHANGED <<heap, skel, root, other, out, lastLoad, own>>

\* __load_frame on the next node: its channels take their values and its
\* children are called next, in order; an exception ends the worker
LoadFrameStep(w) ==
  /\ pc[w] = "__load_frame"
  /\ IF todo[w] = <<>>
       THEN /\ pc' = [pc EXCEPT ![w] = "apply_transformation"]
            /\ todo' = [todo EXCEPT ![w] =
                          <<[node |-> own[w], parent_tran_matrix |-> Identity4]>>]
            /\ UNCHANGED <<heap, lists>>
       ELSE \E st \in {load_channels([heap |-> heap, lists |-> lists, err |-> "ok"],
                                      Head(todo[w]), priv[w], 1)} :
              /\ heap' = st.heap
              /\ lists' = st.lists
              /\ IF st.err = "ok"
                   THEN /\ todo' = [todo EXCEPT ![w] =
                                      heap[Head(todo[w])].children \o Tail(todo[w])]
                        /\ pc' = pc
                   ELSE /\ todo' = [todo EXCEPT ![w] = <<>>]
                        /\ pc' = [pc EXCEPT ![w] = "failed"]
  /\ UNCHANGED <<skel, root, other, out, lastLoad, own, priv>>

\* apply_transformation on the next node: its localTrans and coordinates are
\* set and its children are called next with its total matrix
ApplyStep(w) ==
  /\ pc[w] = "apply_transformation"
  /\ IF todo[w] = <<>>
       THEN /\ pc' = [pc EXCEPT ![w] = "done"]
            /\ UNCHANGED <<heap, todo>>
       ELSE \E call \in {Head(todo[w])} :
              \E r \in {apply_node(heap[call.node], call.parent_tran_matrix)} :
                /\ heap' = [heap EXCEPT ![call.node] = r.node]
                /\ todo' = [todo EXCEPT ![w] =
                              [k \in 1..Len(heap[call.node].children) |->
                                 [node |-> heap[call.node].children[k],
                                  parent_tran_matrix |-> r.tran_matrix]]
                              \o Tail(todo[w])]
                /\ pc' = pc
  /\ UNCHANGED <<lists, skel, root, other, out, lastLoad, own, priv>>

NextWorkers ==
  \E w \in Workers :
    \/ CopyTree(w)
    \/ EnterLoadFrame(w)
    \/ LoadFrameStep(w)
    \/ ApplyStep(w)

SpecWorkers == InitWorkers /\ [][NextWorkers]_vars

-----------------------------------------------------------------------------
(* Properties of load_frame, apply_transformation and frame_distance (Spec) *)

\* the caller's array has at least as many values as the tree has channels
ValidFrame(a) == Len(lists[a]) >= TotalChannels(heap, root)

\* C1: after a load_frame that succeeded, the k-th channel of the pre-order
\* traversal (a node's channels in declared order, then its children in
\* declared order) holds values[k], for every k up to the channel count.
C1_PreorderAssignment ==
  (out.op = "load_frame" /\ out.status = "ok") =>
    /\ ValidFrame(out.a)
    /\ \A k \in 1..TotalChannels(heap, out.node) :
         PreorderValues(heap, out.node)[k] = lists[out.a][k]

\* a longer array than needed was loaded into a tree of several nodes, and
\* the values assigned are not all the same
C1_Witness ==
  /\ out.op = "load_frame" /\ out.status = "ok"
  /\ Len(Preorder(heap, root)) >= 3
  /\ Len(lists[out.a]) > TotalChannels(heap, root)
  /\ PreorderValues(heap, root)[1] # PreorderValues(heap, root)[2]

\* C2: no call, load_frame in particular, succeeding or failing, changes the
\* length or the elements of an array of the caller, so that every load_frame
\* of an array sets the channels it reaches to the values the array had at
\* first.
C2_InputUnchanged ==
  [][/\ lists' = lists
     /\ out'.op = "load_frame" =>
          \A k \in 1..TotalChannels(heap, root) :
            k <= Len(lists[out'.a]) =>
              PreorderValues(heap', root')[k] = lists[out'.a][k]]_vars

\* a load_frame that took values from its private copy and then failed
C2_Witness ==
  /\ out.op = "load_frame" /\ out.status = "IndexError"
  /\ Len(lists[out.a]) > 0

RefView == TreeView(heap, root)

\* C3: a frame_distance call leaves every channel value, local transform and
\* world coordinate of every node of the reference tree, and its structure,
\* as they were.
C3_ReferenceUnmutated ==
  [][out'.op = "frame_distance" => RefView' = RefView]_vars

\* a distance was computed from a reference tree that holds coordinates and
\* channel values of its own
C3_Witness ==
  /\ out.op = "frame_distance" /\ out.status = "ok" /\ out.value > 0
  /\ heap[root].coordinates # EmptyList
  /\ \E k \in 1..TotalChannels(heap, root) : PreorderValues(heap, root)[k] # 0

\* C4: load_frame with fewer values than the tree has channels raises the
\* IndexError of pop(0) (the UnderflowError), and the channels for which no
\* value was left keep the value they had: no default is put in.
C4_Underflow ==
  [][(out'.op = "load_frame" /\ Len(lists[out'.a]) < TotalChannels(heap, root)) =>
       /\ out'.status = "IndexError"
       /\ \A k \in (Len(lists[out'.a]) + 1)..TotalChannels(heap, root) :
            PreorderValues(heap', root')[k] = PreorderValues(heap, root)[k]]_vars

\* a failed load_frame after which a channel that got no value still holds a
\* value loaded earlier
C4_Witness ==
  /\ out.op = "load_frame" /\ out.status = "IndexError"
  /\ \E k \in (Len(lists[out.a]) + 1)..TotalChannels(heap, root) :
       PreorderValues(heap, root)[k] # 0

\* C7: for valid frames a and b, frame_distance(tree, a, b) succeeds and is
\* what frame_distance(tree, b, a) returns.
C7_Symmetric ==
  (out.op = "frame_distance" /\ ValidFrame(out.a) /\ ValidFrame(out.b)) =>
    \E r \in {frame_distance(heap, lists, root, out.b, out.a)} :
      /\ out.status = "ok"
      /\ r.status = "ok"
      /\ r.value = out.value

\* a non-zero distance between two different arrays
C7_Witness ==
  /\ out.op = "frame_distance" /\ out.status = "ok"
  /\ out.a # out.b /\ out.value > 0

\* C8: frame_distance(tree, f, f) is 0 for every valid frame f.
C8_SelfDistanceZero ==
  (out.op = "frame_distance" /\ lists[out.a] = lists[out.b] /\ ValidFrame(out.a)) =>
    (out.status = "ok" /\ out.value = 0)

\* the distance of a frame that moves the skeleton out of its rest pose to
\* itself
C8_Witness ==
  /\ out.op = "frame_distance" /\ out.status = "ok" /\ out.a = out.b
  /\ TotalChannels(heap, root) > 0
  /\ \E k \in 1..TotalChannels(heap, root) : lists[out.a][k] # 0

\* local transform and world coordinates of every node, in pre-order
FKView(h, id) ==
  Bind(Preorder(h, id), LAMBDA ns :
    [n \in 1..Len(ns) |->
       [localTrans |-> h[ns[n]].localTrans, coordinates |-> h[ns[n]].coordinates]])

\* a fresh tree of the same skeleton on which the last frame loaded (by a
\* load_frame that succeeded), if there is one, is loaded and
\* apply_transformation is run once
FreshFK ==
  Bind(BuildNode(<<>>, skel), LAMBDA t :
    IF lastLoad.a = 0
      THEN FKView(apply_transformation(t.heap, t.id, Identity4), t.id)
    ELSE
      Bind(load_frame(t.heap, lists, t.id, lastLoad.a), LAMBDA l :
        FKView(apply_transformation(l.heap, t.id, Identity4), t.id)))

-----------------------------------------------------------------------------
(* Properties of search_node (SpecSearch) *)

\* the first node of a sequence of references that has the name, or None
RECURSIVE FirstNamed(_, _, _)
FirstNamed(h, ns, name) ==
  IF ns = <<>> THEN None
  ELSE IF h[Head(ns)].name = name THEN Head(ns)
  ELSE FirstNamed(h, Tail(ns), name)

\* C9: search_node returns the first node in pre-order that has the name,
\* and None when no node has it.
C9_FirstInPreorder ==
  out.op = "search_node" => out.value = FirstNamed(heap, Preorder(heap, root), out.a)

\* a node below the root was found, and a later node of the pre-order has
\* the same name
C9_Witness ==
  /\ out.op = "search_node" /\ out.value # None /\ out.value # root
  /\ \E ns \in {Preorder(heap, root)} :
       \E i \in 1..Len(ns), k \in 1..Len(ns) :
         /\ ns[i] = out.value /\ i < k /\ heap[ns[k]].name = out.a

-----------------------------------------------------------------------------
(* Properties of distance (SpecDistance) *)

\* some pair of nodes that the zip of the two trees puts together differs in
\* name or weight
RECURSIVE MismatchInZip(_, _, _)
MismatchInZip(h, a, b) ==
  \/ h[a].name # h[b].name
  \/ h[a].weight # h[b].weight
  \/ \E k \in 1..Len(Zip(h[a].children, h[b].children)) :
       MismatchInZip(h, h[a].children[k], h[b].children[k])

\* C5: distance on two nodes that differ in name or weight raises the
\* AssertionError of the assert (the MismatchError), and a mismatch between
\* any two nodes the zip puts together makes the call fail: no number is
\* returned.
C5_Mismatch ==
  out.op = "distance" =>
    /\ (heap[root].name # heap[other].name \/ heap[root].weight # heap[other].weight)
         => out.status = "AssertionError"
    /\ MismatchInZip(heap, root, other)
         => out.status \in {"AssertionError", "TypeError"}

\* the roots correspond and hold coordinates, a pair of children has the same
\* name and different weights, and the call failed on them
C5_Witness ==
  /\ out.op = "distance" /\ out.status = "AssertionError"
  /\ heap[root].name = heap[other].name /\ heap[root].weight = heap[other].weight
  /\ heap[root].coordinates # EmptyList /\ heap[other].coordinates # EmptyList
  /\ \E k \in 1..Len(Zip(heap[root].children, heap[other].children)) :
       /\ heap[heap[root].children[k]].name = heap[heap[other].children[k]].name
       /\ heap[heap[root].children[k]].weight # heap[heap[other].children[k]].weight

-----------------------------------------------------------------------------
(* Properties of the workers (SpecWorkers) *)

\* the tree a worker ends with when it runs alone: a fresh tree of the
\* skeleton, its array loaded and, unless that failed, apply_transformation
AloneView(w) ==
  Bind(BuildNode(<<>>, skel), LAMBDA t :
  Bind(load_frame(t.heap, <<lists[w]>>, t.id, 1), LAMBDA l :
    IF l.err # "ok" THEN TreeView(l.heap, t.id)
    ELSE TreeView(apply_transformation(l.heap, t.id, Identity4), t.id)))

\* the tree as built, which no worker has a reason to touch
OriginalView == Bind(BuildNode(<<>>, skel), LAMBDA t : TreeView(t.heap, t.id))

\* C6: under every interleaving the original tree stays as it was, and a
\* worker that has finished (or failed) holds the tree it would hold had it
\* run alone.
C6_NoInterference ==
  /\ TreeView(heap, root) = OriginalView
  /\ \A w \in Workers :
       pc[w] \in {"done", "failed"} => TreeView(heap, own[w]) = AloneView(w)

\* both workers are done, on two trees that ended up different
C6_Witness ==
  /\ \A w \in Workers : pc[w] = "done"
  /\ own[1] # own[2]
  /\ TreeView(heap, own[1]) # TreeView(heap, own[2])

====
